---- MODULE Spec2Model ----
(***************************************************************************)
(* Model of the level / rating / leaderboard controllers of cytoid.api     *)
(* (src/unnamed/part_004: LevelController, ProfileController).             *)
(*                                                                         *)
(* The relational tables are sets of rows, redis is a map from key to an   *)
(* optional entry, and every request handler is cut into one step per      *)
(* awaited database / redis call, so that handlers interleave exactly      *)
(* where the node event loop lets them interleave.                         *)
(*                                                                         *)
(* Encodings                                                               *)
(*   - an optional value (SQL NULL, JS null/undefined, missing redis key)  *)
(*     is the empty sequence <<>>, a present value v is <<v>>;             *)
(*   - the number submitted as a rating may be fractional, so a submitted  *)
(*     rating x is carried as the integer 2*x ("half units");              *)
(*   - a user id (a uuid) is a positive integer; a string given where an   *)
(*     id or a uid is expected is a record [uuid, s]: uuid tells whether   *)
(*     validator.isUUID accepts the string, s tells the strings apart.     *)
(***************************************************************************)
EXTENDS Integers, Sequences, FiniteSets, TLC

VARIABLES
    users,      \* table users: rows [id, uid, role]
    levels,     \* table levels: rows [id, uid, ownerId, published, censored, ...]
    charts,     \* table charts: rows [id, levelId, type, difficulty]
    ratings,    \* table level_ratings: rows [levelId, userId, rating]
    records,    \* table records: rows [ownerId, chartId, score, date, ranked]
    cache,      \* redis: level uid -> optional [val, ttl]
    proc,       \* in-flight request of every connection slot
    resp        \* the response most recently sent

vars == <<users, levels, charts, ratings, records, cache, proc, resp>>

----------------------------------------------------------------------------
(* Generic helpers                                                         *)

None == <<>>

Some(v) == <<v>>

IsSome(o) == o /= <<>>

Val(o) == o[1]

Abs(x) == IF x < 0 THEN -x ELSE x

RECURSIVE SumOver(_, _)
\* Sum of f[x] for x in the finite set S.
SumOver(S, f) ==
    IF S = {} THEN 0
    ELSE LET x == CHOOSE y \in S : TRUE
         IN  f[x] + SumOver(S \ {x}, f)

\* Math.ceil(a / b) and Math.floor(a / b) for a >= 0, b > 0.
Ceil(a, b) == (a + b - 1) \div b

Floor(a, b) == a \div b

----------------------------------------------------------------------------
(* Identities                                                              *)

\* The anonymous caller: @CurrentUser() is undefined.
Anon == 0

UserIds == {1, 2}

Callers == UserIds \cup {Anon}

\* Requests the server is handling at once (koa serves each in its own
\* async call chain).
Procs == {1, 2}

Idle == [pc |-> "idle"]

NoResp == [op |-> "none"]

\* A new request takes the lowest free slot.
Free(p) == proc[p] = Idle /\ \A q \in Procs : q < p => proc[q] /= Idle

\* SELECT id FROM levels WHERE uid = :uid   (NULL when there is no such level)
LevelIdOf_First(uid) ==
    IF levels = {} THEN None ELSE Some((CHOOSE l \in levels : TRUE).id)

LevelIdOf(uid) ==
    LET hit == {l \in levels : l.uid = uid}
    IN  IF hit = {} THEN None ELSE Some((CHOOSE l \in hit : TRUE).id)

----------------------------------------------------------------------------
(* Ratings: LevelController.getRatings / updateRatings                     *)

\* redis.setexAsync(key, 3600, ...): the time to live of a cached aggregate.
CacheTTL == 3600

\* Level uids a rating request may name: one that exists, one that does not.
RatingUids == {"lv1", "nolevel"}

\* The uids among them that getRatings is asked for directly.
ReadUids == {"lv1"}

\* Submitted ratings, in half units: -1, 0, 0.5, 3, 10, 10.5, 11.
RatingInputs == {-2, 0, 1, 6, 20, 21, 22}

\* if (!rating): a JS number is falsy when it is 0.
IsFalsy_Never(rating) == FALSE

IsFalsy(rating) == rating = 0

\* if (rating > 10 || rating <= 0), on half units.
RatingOutOfRange_Wide(rating) == rating > 22 \/ rating <= 0

RatingOutOfRange(rating) == rating > 20 \/ rating <= 0

\* Whether a number in half units is a whole number.
IsWhole(rating) == rating % 2 = 0

\* The rating column holds whole numbers: the insert of a fractional value
\* is refused by the database. (Rows keep the value in half units.)
ColumnAccepts(rating) == IsWhole(rating)

\* WITH ratings AS (SELECT rating, "userId" FROM level_ratings
\*                  WHERE "levelId" = (SELECT id FROM levels WHERE uid = $1))
RatingRows(id) ==
    LET lid == LevelIdOf(id)
    IN  IF IsSome(lid) THEN {r \in ratings : r.levelId = Val(lid)} ELSE {}

\* array(SELECT coalesce(data.count, 0) FROM generate_series(1, 10) LEFT JOIN
\*       (SELECT rating, count(rating) ... GROUP BY rating) ...)
Distribution(rows) ==
    [i \in 1..10 |-> Cardinality({r \in rows : r.rating = 2 * i})]

\* SELECT rating FROM ratings WHERE "userId" = $2: the caller's own row.
OwnRating(rows, user) ==
    LET mine == {r \in rows : r.userId = user}
    IN  IF user = Anon \/ mine = {} THEN None
        ELSE Some(CHOOSE r \in mine : TRUE)

\* The row the aggregate query of getRatings returns, after the parse calls.
\* average is the fraction num/den of avg(rating), the ratings being in half
\* units (den = 0: parseFloat(null) = NaN).
QueryAggregate(id, user) ==
    LET rows == RatingRows(id)
    IN  [ average      |-> [num |-> SumOver(rows, [r \in rows |-> r.rating]),
                            den |-> 2 * Cardinality(rows)],
          total        |-> Cardinality(rows),
          distribution |-> Distribution(rows),
          rating       |-> OwnRating(rows, user) ]

\* delete a.rating   (before the aggregate is written to redis)
DeleteRating_Keep(a) == a

DeleteRating(a) == [a EXCEPT !.rating = None]

\* The body sent to the caller; rating is the caller's row or absent.
Response(op, id, user, status, body) ==
    [op |-> op, id |-> id, user |-> user, status |-> status, body |-> body]

\* updateRatings, up to and including its first awaited statement
\* (the DELETE or the INSERT ... ON CONFLICT DO UPDATE).
UpdateRatings(p, id, user, rating) ==
    /\ Free(p)
    /\ user /= Anon
    /\ LET lid  == LevelIdOf(id)
           mine == {r \in ratings : IsSome(lid) /\ r.levelId = Val(lid)
                                                /\ r.userId = user}
           fail(status) ==
               /\ resp' = Response("updateRatings", id, user, status, None)
               /\ UNCHANGED <<ratings, proc>>
           go == proc' = [proc EXCEPT ![p] =
                     [pc |-> "del", op |-> "updateRatings", id |-> id,
                      user |-> user, a |-> None]]
       IN  IF IsFalsy(rating)
           THEN IF mine = {}
                THEN fail("NotFoundError")
                ELSE /\ ratings' = ratings \ mine
                     /\ go
                     /\ UNCHANGED resp
           ELSE IF RatingOutOfRange(rating)
           THEN fail("BadRequestError")
           ELSE IF ~ColumnAccepts(rating)
           THEN fail("InternalServerError")
           ELSE IF ~IsSome(lid)
           THEN fail("NotFoundError")
           ELSE /\ ratings' = (ratings \ mine) \cup
                       {[levelId |-> Val(lid), userId |-> user,
                         rating |-> rating]}
                /\ go
                /\ UNCHANGED resp
    /\ UNCHANGED <<users, levels, charts, records, cache>>

\* @BodyParam('rating', {required: true}): a request whose body has no
\* rating (or a null one) is refused before the handler runs.
UpdateRatingsAbsent(p, id, user) ==
    /\ Free(p)
    /\ user /= Anon
    /\ resp' = Response("updateRatings", id, user, "ParamRequiredError", None)
    /\ UNCHANGED <<users, levels, charts, ratings, records, cache, proc>>

\* await redis.delAsync(this.levelRatingCacheKey + id)
UpdateRatingsDel(p) ==
    /\ proc[p].pc = "del"
    /\ cache' = [cache EXCEPT ![proc[p].id] = None]
    /\ proc' = [proc EXCEPT ![p].pc = "get"]
    /\ UNCHANGED <<users, levels, charts, ratings, records, resp>>

\* getRatings, first step: redis.getAsync. A hit for an anonymous caller is
\* answered at once with the cached text.
GetCache(p, op, id, user) ==
    IF IsSome(cache[id])
    THEN IF user = Anon
         THEN /\ resp' = Response(op, id, user, "ok", Some(Val(cache[id]).val))
              /\ proc' = [proc EXCEPT ![p] = Idle]
         ELSE /\ proc' = [proc EXCEPT ![p] =
                     [pc |-> "hit", op |-> op, id |-> id, user |-> user,
                      a |-> Some(Val(cache[id]).val)]]
              /\ UNCHANGED resp
    ELSE /\ proc' = [proc EXCEPT ![p] =
                [pc |-> "miss", op |-> op, id |-> id, user |-> user,
                 a |-> None]]
         /\ UNCHANGED resp

\* GET /:id/ratings
GetRatings(p, id, user) ==
    /\ Free(p)
    /\ GetCache(p, "getRatings", id, user)
    /\ UNCHANGED <<users, levels, charts, ratings, records, cache>>

\* return this.getRatings(id, user)   (the tail of updateRatings)
UpdateRatingsGet(p) ==
    /\ proc[p].pc = "get"
    /\ GetCache(p, "updateRatings", proc[p].id, proc[p].user)
    /\ UNCHANGED <<users, levels, charts, ratings, records, cache>>

\* Cache hit, authenticated caller: the caller's rating is read from the
\* table and put into the parsed cache value.
GetRatingsHit(p) ==
    /\ proc[p].pc = "hit"
    /\ LET q == proc[p]
           result == [Val(q.a) EXCEPT
                        !.rating = OwnRating(RatingRows(q.id), q.user)]
       IN  resp' = Response(q.op, q.id, q.user, "ok", Some(result))
    /\ proc' = [proc EXCEPT ![p] = Idle]
    /\ UNCHANGED <<users, levels, charts, ratings, records, cache>>

\* Cache miss: the aggregate query.
GetRatingsQuery(p) ==
    /\ proc[p].pc = "miss"
    /\ proc' = [proc EXCEPT ![p].pc = "setex",
                            ![p].a = Some(QueryAggregate(proc[p].id, proc[p].user))]
    /\ UNCHANGED <<users, levels, charts, ratings, records, cache, resp>>

\* Cache miss: redis.setexAsync of the aggregate without the caller's rating,
\* then the answer with it.
GetRatingsSetex(p) ==
    /\ proc[p].pc = "setex"
    /\ LET q == proc[p]
       IN  /\ cache' = [cache EXCEPT ![q.id] =
                   Some([val |-> DeleteRating(Val(q.a)), ttl |-> CacheTTL])]
           /\ resp' = Response(q.op, q.id, q.user, "ok", Some(Val(q.a)))
    /\ proc' = [proc EXCEPT ![p] = Idle]
    /\ UNCHANGED <<users, levels, charts, ratings, records>>

\* The redis key outlives its time to live: redis drops it.
CacheExpire(id) ==
    /\ IsSome(cache[id])
    /\ cache' = [cache EXCEPT ![id] = None]
    /\ UNCHANGED <<users, levels, charts, ratings, records, proc, resp>>

RatingLevels ==
    {[id |-> 1, uid |-> "lv1", ownerId |-> 1,
      published |-> TRUE, censored |-> None]}

RatingInit ==
    /\ users = {}
    /\ levels = RatingLevels
    /\ charts = {}
    /\ ratings = {}
    /\ records = {}
    /\ cache = [id \in RatingUids |-> None]
    /\ proc = [p \in Procs |-> Idle]
    /\ resp = NoResp

RatingNext ==
    \/ \E p \in Procs, id \in RatingUids, user \in UserIds, rating \in RatingInputs :
           UpdateRatings(p, id, user, rating)
    \/ \E p \in Procs : UpdateRatingsDel(p)
    \/ \E p \in Procs : UpdateRatingsGet(p)
    \/ \E p \in Procs, id \in ReadUids, user \in Callers : GetRatings(p, id, user)
    \/ \E p \in Procs : GetRatingsHit(p)
    \/ \E p \in Procs : GetRatingsQuery(p)
    \/ \E p \in Procs : GetRatingsSetex(p)
    \/ \E id \in RatingUids : CacheExpire(id)

SpecRating == RatingInit /\ [][RatingNext]_vars

----------------------------------------------------------------------------
(* Claims about the ratings                                                *)

AllIdle == \A p \in Procs : proc[p] = Idle

OkResponse ==
    resp.op \in {"getRatings", "updateRatings"} /\ resp.status = "ok"

\* C7: the cached aggregate lives 3600 seconds, and once updateRatings has
\* removed it the aggregate that updateRatings returns, and the one any later
\* getRatings finds (the cache entry, once no request is in flight), reflects
\* the ratings as written.
C7_CacheReflectsWrites ==
    /\ \A id \in RatingUids :
           IsSome(cache[id]) => Val(cache[id]).ttl = CacheTTL
    /\ (resp.op = "updateRatings" /\ resp.status = "ok"
            /\ IsSome(Val(resp.body).rating))
       => LET mine == Val(Val(resp.body).rating).rating
          IN  IsWhole(mine) /\ (mine \div 2) \in 1..10
              => Val(resp.body).distribution[mine \div 2] >= 1
    /\ AllIdle =>
           \A id \in RatingUids :
               IsSome(cache[id]) =>
                   Val(cache[id]).val = DeleteRating(QueryAggregate(id, Anon))

UpdateNext ==
    \/ \E p \in Procs, id \in RatingUids, user \in UserIds, rating \in RatingInputs :
           UpdateRatings(p, id, user, rating)
    \/ \E p \in Procs, id \in RatingUids, user \in UserIds :
           UpdateRatingsAbsent(p, id, user)
    \/ \E p \in Procs : UpdateRatingsDel(p)
    \/ \E p \in Procs : UpdateRatingsGet(p)
    \/ \E p \in Procs : GetRatingsHit(p)
    \/ \E p \in Procs : GetRatingsQuery(p)
    \/ \E p \in Procs : GetRatingsSetex(p)

SpecUpdate == RatingInit /\ [][UpdateNext]_vars

\* The rows of a set of ratings that belong to a level uid and a user.
RatedBy(rs, id, user) ==
    {r \in rs : /\ r.userId = user
                /\ \E l \in levels : l.uid = id /\ l.id = r.levelId}

\* A step that may be the first statement of updateRatings: a request enters
\* its second stage or a refusal is answered.
UpdateStep ==
    \/ \E p \in Procs : proc[p] = Idle /\ proc'[p] /= Idle /\ proc'[p].pc = "del"
    \/ resp' /= resp /\ resp'.op = "updateRatings" /\ resp'.status /= "ok"

\* The step is one of slot p on behalf of a request for (id, user): the slot
\* was free, and the request is the one p now carries or the one answered.
Asks(p, id, user) ==
    /\ proc[p] = Idle
    /\ IF proc'[p] /= Idle
       THEN proc'[p].id = id /\ proc'[p].user = user
       ELSE resp' /= NoResp /\ resp'.id = id /\ resp'.user = user

\* C16 as stated: an absent rating acts like a zero one, removing the pair's
\* rating, and fails with NotFoundError when there was none.
C16_Ratings_Stated ==
    [][ UpdateStep =>
          \A p \in Procs, id \in RatingUids, user \in UserIds :
              (Asks(p, id, user) /\ UpdateRatingsAbsent(p, id, user)) =>
                  IF RatedBy(ratings, id, user) = {}
                  THEN resp'.status = "NotFoundError"
                  ELSE RatedBy(ratings', id, user) = {}
      ]_vars

\* C16: whatever the interleaving of updateRatings calls, there is at most
\* one rating per (level, user), and only the writing statement of an
\* updateRatings call changes the ratings: a rating of 1..10 leaves the pair
\* with exactly that rating, a zero rating removes the pair's rating and
\* fails with NotFoundError, changing nothing, when there was none; no other
\* pair is touched. A request without a rating is refused with
\* ParamRequiredError and removes nothing.
C16_Ratings ==
    /\ [](\A r1, r2 \in ratings :
             (r1.levelId = r2.levelId /\ r1.userId = r2.userId) => r1 = r2)
    /\ [][ ratings' /= ratings => UpdateStep ]_vars
    /\ [][ UpdateStep =>
             \A p \in Procs, id \in RatingUids, user \in UserIds :
                 Asks(p, id, user) =>
                 /\ UpdateRatingsAbsent(p, id, user) =>
                        /\ resp'.status = "ParamRequiredError"
                        /\ ratings' = ratings
                 /\ \A rating \in RatingInputs :
                        UpdateRatings(p, id, user, rating) =>
                            LET before == RatedBy(ratings, id, user)
                                after  == RatedBy(ratings', id, user)
                            IN  /\ ratings' \ after = ratings \ before
                                /\ proc'[p] = Idle => ratings' = ratings
                                /\ (proc'[p] /= Idle /\ rating /= 0) =>
                                       {r.rating : r \in after} = {rating}
                                /\ rating = 0 =>
                                       IF before = {}
                                       THEN /\ resp'.status = "NotFoundError"
                                            /\ proc'[p] = Idle
                                       ELSE /\ after = {}
                                            /\ proc'[p] /= Idle
         ]_vars

\* Two calls of updateRatings by the same user for the same level are in
\* flight at once, and the user has one rating for the level.
C16_Witness ==
    /\ \A p \in Procs : proc[p] /= Idle /\ proc[p].op = "updateRatings"
    /\ proc[1].id = proc[2].id /\ proc[1].user = proc[2].user
    /\ Cardinality(RatedBy(ratings, proc[1].id, proc[1].user)) = 1

\* C17: a call of updateRatings with a rating above 10 or below 0 fails with
\* BadRequestError, one with a whole rating of 0..10 for a level uid that
\* does not exist fails with NotFoundError, and a call that fails leaves
\* every rating row and every cached aggregate as it was.
C17_FailedUpdate ==
    [][ UpdateStep =>
          \A p \in Procs, id \in RatingUids, user \in UserIds :
            Asks(p, id, user) =>
              \A rating \in RatingInputs :
                UpdateRatings(p, id, user, rating) =>
                  LET failed(status) ==
                          /\ resp' = Response("updateRatings", id, user, status, None)
                          /\ proc'[p] = Idle
                  IN  /\ (rating > 20 \/ rating < 0) => failed("BadRequestError")
                      /\ ((~\E l \in levels : l.uid = id)
                              /\ rating >= 0 /\ rating <= 20 /\ IsWhole(rating))
                         => failed("NotFoundError")
                      /\ proc'[p] = Idle =>
                             /\ resp'.status /= "ok"
                             /\ ratings' = ratings
                             /\ cache' = cache
      ]_vars

\* A rating for a level uid that does not exist was just refused while a
\* rating is stored and its aggregate is cached.
C17_Witness ==
    /\ resp.op = "updateRatings" /\ resp.status = "NotFoundError"
    /\ resp.id = "nolevel"
    /\ ratings /= {}
    /\ IsSome(cache["lv1"])


----------------------------------------------------------------------------
(* Leaderboard: LevelController.queryLeaderboard / getChartRanking /       *)
(* addRecord                                                               *)

\* Rows the records table may hold in the model.
MaxRecords == 3

\* @Max(1000000) of NewRecord.score
MaxScore == 1000000

\* The string of a user id, and a string that is no uuid.
IdStr(id) == [uuid |-> TRUE, s |-> id]

UidStr(n) == [uuid |-> FALSE, s |-> n]

\* SELECT id FROM users WHERE uid = :user
UserIdOfUid(str) ==
    LET hit == {u \in users : u.uid = Some(str)}
    IN  IF hit = {} THEN None ELSE Some((CHOOSE u \in hit : TRUE).id)

\* SELECT id FROM charts WHERE "levelId" = (SELECT id FROM levels WHERE uid = :uid)
\*                         AND type = :type
ChartIdOf(uid, type) ==
    LET lid == LevelIdOf(uid)
        hit == {c \in charts : IsSome(lid) /\ c.levelId = Val(lid) /\ c.type = type}
    IN  IF hit = {} THEN None ELSE Some((CHOOSE c \in hit : TRUE).id)

\* WHERE "chartId" = (...) AND ranked = true
RankedRows_All(cid) ==
    IF IsSome(cid) THEN {r \in records : r.chartId = Val(cid)} ELSE {}

RankedRows(cid) ==
    IF IsSome(cid) THEN {r \in records : r.chartId = Val(cid) /\ r.ranked} ELSE {}

\* ORDER BY "ownerId", score DESC, date ASC   (the DISTINCT ON subquery)
InnerBefore(a, b) ==
    \/ a.ownerId < b.ownerId
    \/ a.ownerId = b.ownerId /\ a.score > b.score
    \/ a.ownerId = b.ownerId /\ a.score = b.score /\ a.date < b.date

RECURSIVE InnerSort(_)
InnerSort(S) ==
    IF S = {} THEN <<>>
    ELSE LET m == CHOOSE x \in S : \A y \in S : ~InnerBefore(y, x)
         IN  <<m>> \o InnerSort(S \ {m})

RECURSIVE DistinctOnOwner(_)
\* DISTINCT ON ("ownerId"): the first row of every run of equal ownerId.
DistinctOnOwner(s) ==
    IF Len(s) <= 1 THEN s
    ELSE IF s[1].ownerId = s[2].ownerId
         THEN DistinctOnOwner(<<s[1]>> \o SubSeq(s, 3, Len(s)))
         ELSE <<s[1]>> \o DistinctOnOwner(Tail(s))

SeqRange(s) == {s[i] : i \in 1..Len(s)}

\* rank() OVER (ORDER BY score DESC, date ASC): the window's order.
WindowBefore(a, b) ==
    a.score > b.score \/ (a.score = b.score /\ a.date < b.date)

RECURSIVE WindowOrders(_)
\* Every order the window sort may leave the rows in: rows that tie on
\* (score, date) come out in either order.
WindowOrders(S) ==
    IF S = {} THEN {<<>>}
    ELSE UNION { {<<m>> \o t : t \in WindowOrders(S \ {m})} :
                 m \in {x \in S : \A y \in S : ~WindowBefore(y, x)} }

\* rank(): a row's position in the window order, rows that tie sharing the
\* position of the first of them.
RankAt(ord, i) ==
    LET firstPeer == CHOOSE j \in 1..i :
            /\ \A k \in j..i : ~WindowBefore(ord[k], ord[i]) /\ ~WindowBefore(ord[i], ord[k])
            /\ \A k \in 1..(j - 1) : WindowBefore(ord[k], ord[i])
    IN  firstPeer

\* The rows queryLeaderboard's query may return, in the order returned.
QueryLeaderboard(uid, type) ==
    LET best == SeqRange(DistinctOnOwner(InnerSort(RankedRows(ChartIdOf(uid, type)))))
    IN  { [i \in 1..Len(ord) |->
              [ownerId |-> ord[i].ownerId, score |-> ord[i].score,
               date |-> ord[i].date, rank |-> RankAt(ord, i)]] :
          ord \in WindowOrders(best) }

\* if (userLimit < 0) userLimit = 0; if (userLimit > 10) userLimit = 10
ClampUserLimit_NoFloor(userLimit) ==
    IF userLimit > 10 THEN 10 ELSE userLimit

ClampUserLimit(userLimit) ==
    IF userLimit < 0 THEN 0 ELSE IF userLimit > 10 THEN 10 ELSE userLimit

\* if (limit > 30) limit = 30
CapLimit(limit) == IF limit > 30 THEN 30 ELSE limit

\* SELECT rank FROM lb WHERE u_id = :user            (the string is a uuid)
\*                  or u_id = (SELECT id FROM users WHERE uid = :user)
RankOfUser(lb, user) ==
    LET uid == IF user.uuid THEN Some(user.s) ELSE UserIdOfUid(user)
        hit == {i \in 1..Len(lb) : IsSome(uid) /\ lb[i].ownerId = Val(uid)}
    IN  IF hit = {} THEN None ELSE Some(lb[CHOOSE i \in hit : TRUE].rank)

\* SELECT * FROM lb WHERE abs(rank - (rankQuery)) <= :userLimit
AroundUser(lb, user, userLimit) ==
    LET r == RankOfUser(lb, user)
    IN  IF IsSome(r)
        THEN SelectSeq(lb, LAMBDA e : Abs(e.rank - Val(r)) <= userLimit)
        ELSE <<>>

\* .limit(limit).offset(limit * page)
PageOf(lb, limit, page) ==
    SubSeq(lb, limit * page + 1,
           IF limit * page + limit < Len(lb) THEN limit * page + limit ELSE Len(lb))

\* SELECT count(DISTINCT r."ownerId") ... AND ranked = true
CountPlayers(uid, type) ==
    Cardinality({r.ownerId : r \in RankedRows(ChartIdOf(uid, type))})

\* ctx.set('X-Total-Page', Math.floor(count / limit).toString())
TotalPage(count, limit) == Floor(count, limit)

\* What a client that asks for page 0, 1, 2, ... in turn has been given so
\* far: the pages' rows one after the other (None when this request does not
\* continue such a walk).
Walked(uid, type, limit, page, rows) ==
    IF page = 0 THEN Some(rows)
    ELSE IF /\ resp.op = "getChartRanking" /\ resp.status = "ok"
            /\ resp.mode = "page" /\ resp.id = uid /\ resp.type = type
            /\ resp.limit = limit /\ resp.page = page - 1 /\ IsSome(resp.walk)
         THEN Some(Val(resp.walk) \o rows)
         ELSE None

\* GET /:id/charts/:chartType/ranking. user is None or Some(string).
GetChartRanking(uid, type, limit, page, user, userLimit) ==
    /\ \E lb \in QueryLeaderboard(uid, type) :
           LET rows == IF IsSome(user)
                       THEN AroundUser(lb, Val(user), ClampUserLimit(userLimit))
                       ELSE PageOf(lb, CapLimit(limit), page)
               count == CountPlayers(uid, type)
               headers == IF IsSome(user) THEN None
                          ELSE Some([totalPage    |-> TotalPage(count, CapLimit(limit)),
                                     totalEntries |-> count,
                                     currentPage  |-> page])
               found == rows /= <<>> \/ IsSome(ChartIdOf(uid, type))
           IN  resp' = [ op |-> "getChartRanking",
                         status |-> IF found THEN "ok" ELSE "NotFoundError",
                         mode |-> IF IsSome(user) THEN "user" ELSE "page",
                         id |-> uid, type |-> type,
                         limit |-> limit, page |-> page,
                         user |-> user, userLimit |-> userLimit,
                         rows |-> rows, headers |-> headers,
                         walk |-> IF IsSome(user) \/ ~found THEN None
                                  ELSE Walked(uid, type, limit, page, rows) ]
    /\ UNCHANGED <<users, levels, charts, ratings, records, cache, proc>>

\* A request body of addRecord: score is the whole part of the score and
\* whole tells whether that is all of it; accuracy is a fraction
\* [kind |-> "rat", v |-> A] for A / 10000 or an accuracy between 0.7 and
\* 0.9997 given by its logarithm, [kind |-> "log", v |-> T]; extra holds the
\* properties of the body that NewRecord does not declare.
PlainRecord ==
    [score |-> 2, whole |-> TRUE, accuracy |-> [kind |-> "rat", v |-> 10000],
     ranked |-> TRUE, extra |-> [x \in {} |-> x]]

\* @IsNumber() @Min(0) @Max(1) accuracy
AccuracyValid(a) == a.kind = "log" \/ (a.v >= 0 /\ a.v <= 10000)

\* The body validation of NewRecord: @IsInt() @Min(0) @Max(1000000) score,
\* @IsNumber() @Min(0) @Max(1) accuracy. Properties the class does not
\* declare are not looked at and stay on the object.
NewRecordValid(record) ==
    /\ record.whole /\ record.score >= 0 /\ record.score <= MaxScore
    /\ AccuracyValid(record.accuracy)

\* { ownerId: user.id, chart: () => chartQuery.getQuery(), ...record }: the
\* columns of the row that do not come from the declared properties. A
\* property of the body of the same name replaces the handler's value.
InsertValues(uid, type, user, record) ==
    record.extra @@ [ownerId |-> user, chart |-> ChartIdOf(uid, type)]

\* POST /:id/charts/:chartType/records. date is the time the row is written.
AddRecord(uid, type, user, record, date) ==
    /\ user /= Anon
    /\ Cardinality(records) < MaxRecords
    /\ LET values == InsertValues(uid, type, user, record)
           status == IF ~NewRecordValid(record) THEN "BadRequestError"
                     ELSE IF ~IsSome(values.chart) THEN "NotFoundError" ELSE "ok"
       IN  /\ records' = IF status = "ok"
                         THEN records \cup
                              {[ownerId |-> values.ownerId,
                                chartId |-> Val(values.chart),
                                score |-> record.score, date |-> date,
                                ranked |-> record.ranked,
                                accuracy |-> record.accuracy]}
                         ELSE records
           /\ resp' = [op |-> "addRecord", status |-> status, id |-> uid,
                       type |-> type, user |-> user]
    /\ UNCHANGED <<users, levels, charts, ratings, cache, proc>>

\* Players of the long leaderboard the model may start from.
LadderSize == 12

BoardPlayers == 1..3

BoardUsers ==
    {[id |-> i, uid |-> IF i = 1 THEN Some(UidStr(101)) ELSE None, role |-> "user"] :
        i \in 1..LadderSize}

BoardCharts ==
    {[id |-> 1, levelId |-> 1, type |-> "hard", difficulty |-> 10],
     [id |-> 2, levelId |-> 1, type |-> "easy", difficulty |-> 3]}

\* One ranked record per player on the hard chart, all scores different.
Ladder ==
    {[ownerId |-> i, chartId |-> 1, score |-> i, date |-> 1, ranked |-> TRUE,
      accuracy |-> PlainRecord.accuracy] : i \in 1..LadderSize}

\* Requests of addRecord: [type, record, date].
AddRecordInputs ==
    {[type |-> "hard", record |-> [PlainRecord EXCEPT !.score = sc], date |-> d] :
        sc \in {1, 2}, d \in {1, 2}}
    \cup {[type |-> "hard", record |-> [PlainRecord EXCEPT !.ranked = FALSE], date |-> 1],
          [type |-> "easy", record |-> PlainRecord, date |-> 1],
          [type |-> "extreme", record |-> PlainRecord, date |-> 1],
          [type |-> "hard", record |-> [PlainRecord EXCEPT !.score = MaxScore + 1],
           date |-> 1]}

\* Requests of getChartRanking without a user: [type, limit, page].
PageInputs ==
    {[type |-> "hard", limit |-> l, page |-> pg] : l \in {1, 2}, pg \in {0, 1, 2}}
    \cup {[type |-> "hard", limit |-> 35, page |-> 0],
          [type |-> "extreme", limit |-> 1, page |-> 0]}

\* Requests of getChartRanking with a user: [type, user, userLimit].
UserInputs ==
    {[type |-> "hard", user |-> u, userLimit |-> k] :
        u \in {IdStr(1), IdStr(3), IdStr(LadderSize), UidStr(101), UidStr(999)},
        k \in {-1, 1, 11}}
    \cup {[type |-> "extreme", user |-> IdStr(1), userLimit |-> 1]}

BoardInit ==
    /\ users = BoardUsers
    /\ levels = RatingLevels
    /\ charts = BoardCharts
    /\ ratings = {}
    /\ records \in {{}, Ladder}
    /\ cache = [id \in RatingUids |-> None]
    /\ proc = [p \in Procs |-> Idle]
    /\ resp = NoResp

\* An answer depends on the tables alone, so a request that follows another
\* answer of getChartRanking reaches nothing new, unless it asks for the next
\* page of a walk.
FreshAsk(in) ==
    IF resp.op /= "getChartRanking" THEN TRUE
    ELSE /\ resp.mode = "page" /\ resp.status = "ok" /\ resp.type = in.type
         /\ resp.limit = in.limit /\ resp.page = in.page - 1

BoardNext ==
    \/ \E user \in BoardPlayers, in \in AddRecordInputs :
           AddRecord("lv1", in.type, user, in.record, in.date)
    \/ \E in \in PageInputs :
           /\ FreshAsk(in)
           /\ GetChartRanking("lv1", in.type, in.limit, in.page, None, 3)
    \/ \E in \in UserInputs :
           /\ resp.op /= "getChartRanking"
           /\ GetChartRanking("lv1", in.type, 10, 0, Some(in.user), in.userLimit)

SpecBoard == BoardInit /\ [][BoardNext]_vars

----------------------------------------------------------------------------
(* Claims about the leaderboard                                            *)

\* The ranked records of the hard chart of level lv1, read off the table.
HardRanked ==
    {r \in records : r.ranked /\ \E c \in charts : c.type = "hard" /\ c.id = r.chartId}

HardPlayers == {r.ownerId : r \in HardRanked}

\* C2: the leaderboard holds only ranked records, each player at most once
\* and with the player's best record (the earliest among equal scores), and
\* ranks by score descending then date ascending: a strictly higher score has
\* a strictly smaller rank.
C2_Leaderboard ==
    \A lb \in QueryLeaderboard("lv1", "hard") :
        LET n == Len(lb)
            key(e) == [ownerId |-> e.ownerId, score |-> e.score, date |-> e.date]
        IN  /\ \A i \in 1..n : \E r \in HardRanked : key(r) = key(lb[i])
            /\ \A i, j \in 1..n : i /= j => lb[i].ownerId /= lb[j].ownerId
            /\ \A r \in HardRanked : \E i \in 1..n :
                   /\ lb[i].ownerId = r.ownerId
                   /\ \/ lb[i].score > r.score
                      \/ lb[i].score = r.score /\ lb[i].date <= r.date
            /\ \A i, j \in 1..n :
                   /\ lb[i].score > lb[j].score => lb[i].rank < lb[j].rank
                   /\ (lb[i].score = lb[j].score /\ lb[i].date < lb[j].date)
                          => lb[i].rank < lb[j].rank
                   /\ (lb[i].score = lb[j].score /\ lb[i].date = lb[j].date)
                          => lb[i].rank = lb[j].rank
            /\ \A i \in 1..n :
                   lb[i].rank = 1 + Cardinality({j \in 1..n :
                       \/ lb[j].score > lb[i].score
                       \/ lb[j].score = lb[i].score /\ lb[j].date < lb[i].date})

\* The only player of the board has two ranked records of different score
\* next to an unranked record, the last of them just added.
C2_Witness ==
    /\ \E a, b \in HardRanked : a.ownerId = b.ownerId /\ a.score /= b.score
    /\ \E r \in records : ~r.ranked
    /\ Cardinality(HardPlayers) = 1
    /\ resp.op = "addRecord"

\* The leaderboard entries, whatever order the query returned them in.
HardEntries == SeqRange(CHOOSE lb \in QueryLeaderboard("lv1", "hard") : TRUE)

\* The user a user string names: by id when it is a uuid, by uid otherwise.
NamedUsers(str) ==
    {u.id : u \in {v \in users : IF str.uuid THEN v.id = str.s ELSE v.uid = Some(str)}}

UserAnswer ==
    resp.op = "getChartRanking" /\ resp.mode = "user" /\ resp.type = "hard"

PageAnswer ==
    /\ resp.op = "getChartRanking" /\ resp.mode = "page" /\ resp.type = "hard"
    /\ resp.status = "ok"

\* C3: with a user parameter the answer is exactly the entries whose rank is
\* within userLimit (clamped into 0..10) of that user's rank; the user's own
\* entry is among them, and the answer is empty when the user has none.
C3_AroundUser ==
    UserAnswer =>
        LET k == IF resp.userLimit < 0 THEN 0
                 ELSE IF resp.userLimit > 10 THEN 10 ELSE resp.userLimit
            mine == {e \in HardEntries : e.ownerId \in NamedUsers(Val(resp.user))}
            got == SeqRange(resp.rows)
        IN  /\ resp.status = "ok"
            /\ got = {e \in HardEntries : \E m \in mine : Abs(e.rank - m.rank) <= k}
            /\ Len(resp.rows) = Cardinality(got)
            /\ mine \subseteq got
            /\ mine = {} => resp.rows = <<>>

\* On the long board the player ranked last asks with userLimit 11 and gets
\* the 11 entries within 10 ranks, not the whole board.
C3_Witness ==
    /\ UserAnswer
    /\ resp.userLimit = 11
    /\ Len(resp.rows) = 11
    /\ Cardinality(HardEntries) > 11
    /\ \E i \in 1..Len(resp.rows) :
           resp.rows[i].ownerId \in NamedUsers(Val(resp.user))

\* C4: without a user parameter page p of size L holds, in ascending rank
\* order, the entries at positions p*L+1 .. (p+1)*L of the ranking, and the
\* pages 0, 1, 2, ... together list every entry exactly once.
C4_Pages ==
    PageAnswer =>
        LET l == IF resp.limit > 30 THEN 30 ELSE resp.limit
            n == Cardinality(HardEntries)
            first == l * resp.page
            rows == resp.rows
        IN  /\ Len(rows) = IF n - first < 0 THEN 0
                           ELSE IF n - first < l THEN n - first ELSE l
            /\ SeqRange(rows) \subseteq HardEntries
            /\ \A i, j \in 1..Len(rows) : i < j => rows[i].rank <= rows[j].rank
            /\ \A i \in 1..Len(rows) :
                   /\ rows[i].rank <= first + i
                   /\ Cardinality({e \in HardEntries : e.rank <= rows[i].rank}) >= first + i
            /\ (IsSome(resp.walk) /\ first + l >= n) =>
                   /\ SeqRange(Val(resp.walk)) = HardEntries
                   /\ Len(Val(resp.walk)) = n

\* C5: X-Total-Entries is the number of players with a ranked record on the
\* chart and X-Total-Page is the number of pages of size limit that list them.
C5_Headers ==
    PageAnswer =>
        LET l == IF resp.limit > 30 THEN 30 ELSE resp.limit
            h == Val(resp.headers)
        IN  /\ h.totalEntries = Cardinality(HardPlayers)
            /\ h.totalPage = Ceil(Cardinality(HardPlayers), l)

----------------------------------------------------------------------------
(* Levels: LevelController.getLevel / getLevels                            *)

\* Digits the model keeps when postgres divides numerics (avg, "/"), as a
\* power-of-ten scale: a numeric x is carried as the integer round(x * scale).
NumericScale == 1000

\* Division of numerics, rounded half up, for a >= 0 and b > 0.
RoundDiv(a, b) == (2 * a + b) \div (2 * b)

\* ac.can(role).readOwn('level').granted / .readAny('level').granted
Granted(role, action) ==
    CASE role = "admin" -> TRUE
      [] role = "user"  -> action = "readOwn"
      [] OTHER          -> FALSE

\* The ratings of a level, as whole numbers.
LevelRatingValues(levelId) ==
    LET rows == {r \in ratings : r.levelId = levelId}
    IN  [count |-> Cardinality(rows),
         sum   |-> SumOver(rows, [r \in rows |-> r.rating \div 2])]

\* (SELECT avg(level_ratings.rating) FROM level_ratings WHERE "levelId" = levels.id)
\* as rating: NULL without ratings, else the scaled mean.
AvgRating(levelId) ==
    LET v == LevelRatingValues(levelId)
    IN  IF v.count = 0 THEN None
        ELSE Some(RoundDiv(v.sum * NumericScale, v.count))

\* (SELECT (60 + avg(rating) * count(rating)) * 1.0 / (10 + count(rating)) ...)
\* as aux_rating
AuxRating_Prior6(levelId) ==
    LET v == LevelRatingValues(levelId)
        avg == AvgRating(levelId)
    IN  IF v.count = 0 THEN None
        ELSE Some(RoundDiv(6 * NumericScale + Val(avg) * v.count, 10 + v.count))

AuxRating(levelId) ==
    LET v == LevelRatingValues(levelId)
        avg == AvgRating(levelId)
    IN  IF v.count = 0 THEN None
        ELSE Some(RoundDiv(60 * NumericScale + Val(avg) * v.count, 10 + v.count))

LevelCharts(levelId) == {c \in charts : c.levelId = levelId}

MaxOf(S) == CHOOSE x \in S : \A y \in S : y <= x

MinOf(S) == CHOOSE x \in S : \A y \in S : x <= y

\* keyMap[ctx.request.query.sort] evaluated on a level: NULL or a number.
\* An unknown sort name has no key.
HasSortKey(sort) == sort \in {"creation_date", "rating", "difficulty"}

SortKey(l, sort, order) ==
    CASE sort = "creation_date" -> Some(l.date)
      [] sort = "rating"        -> AuxRating(l.id)
      [] sort = "difficulty"    ->
            LET d == {c.difficulty : c \in LevelCharts(l.id)}
            IN  IF d = {} THEN None
                ELSE Some(IF order = "asc" THEN MaxOf(d) ELSE MinOf(d))

\* theSortOrder: DESC only when the order parameter upper-cases to DESC.
IsDesc(order) == order \in {"desc", "DESC"}

\* ORDER BY key theSortOrder NULLS LAST, levels.date_created DESC
\* (or ORDER BY levels.date_created theSortOrder without a sort key).
LevelBefore(a, b, q) ==
    IF IsSome(q.sort) /\ HasSortKey(Val(q.sort))
    THEN LET ka == SortKey(a, Val(q.sort), q.order)
             kb == SortKey(b, Val(q.sort), q.order)
         IN  \/ IsSome(ka) /\ ~IsSome(kb)
             \/ IsSome(ka) /\ IsSome(kb) /\
                   IF IsDesc(q.order) THEN Val(ka) > Val(kb) ELSE Val(ka) < Val(kb)
             \/ ka = kb /\ Val(q.sort) /= "creation_date" /\ a.date > b.date
    ELSE IF IsDesc(q.order) THEN a.date > b.date ELSE a.date < b.date

\* The rows in the order of the ORDER BY: a row's place is one more than the
\* number of rows before it (the creation dates of the levels differ, so no
\* two rows share a place).
SortLevels(S, q) ==
    LET placed == {<<Cardinality({y \in S : LevelBefore(y, x, q)}) + 1, x>> : x \in S}
    IN  [i \in 1..Cardinality(S) |-> (CHOOSE p \in placed : p[1] = i)[2]]

\* The named parameters of the query: a later andWhere that names a
\* parameter again replaces its value for every condition that uses it.
DifficultyParam(q) ==
    IF IsSome(q.min_difficulty) THEN q.min_difficulty ELSE q.max_difficulty

DateParam(q) ==
    IF IsSome(q.date_end) THEN q.date_end ELSE q.date_start

\* EXISTS (SELECT * FROM charts WHERE charts."levelId" = levels.id
\*         [AND type = :type] [AND difficulty <= :difficulty]
\*         [AND difficulty >= :difficulty])
ChartFilter(l, q) ==
    LET typed == IsSome(q.type) /\ Val(q.type) \in {"easy", "hard", "extreme"}
    IN  (typed \/ IsSome(q.max_difficulty) \/ IsSome(q.min_difficulty)) =>
            \E c \in LevelCharts(l.id) :
                /\ typed => c.type = Val(q.type)
                /\ IsSome(q.max_difficulty) => c.difficulty <= Val(DifficultyParam(q))
                /\ IsSome(q.min_difficulty) => c.difficulty >= Val(DifficultyParam(q))

\* levels.date_created >= :date / <= :date
DateFilter(l, q) ==
    /\ IsSome(q.date_start) => l.date >= Val(DateParam(q))
    /\ IsSome(q.date_end) => l.date <= Val(DateParam(q))

\* 'featured' = ANY(levels.category), or its negation
FeaturedFilter(l, q) ==
    IsSome(q.featured) =>
        IF Val(q.featured) = "true" THEN l.featured ELSE ~l.featured

\* owner.id = :id when the string is a uuid, owner.uid = :id otherwise
OwnerFilter(l, q) ==
    IsSome(q.owner) =>
        \E u \in users :
            /\ u.id = l.ownerId
            /\ IF Val(q.owner).uuid THEN IdStr(u.id) = Val(q.owner)
                                    ELSE u.uid = q.owner

\* if (!user || !owner || (owner !== user.uid && owner !== user.id))
PublicQuery_AnyOwner(user, q) ==
    ~IsSome(user) \/ ~IsSome(q.owner)

PublicQuery(user, q) ==
    \/ ~IsSome(user)
    \/ ~IsSome(q.owner)
    \/ (q.owner /= Val(user).uid /\ Val(q.owner) /= IdStr(Val(user).id))

\* levels.published = true AND (levels.censored IS NULL OR levels.censored = 'ccp')
PubliclyListed(l) ==
    l.published /\ (~IsSome(l.censored) \/ l.censored = Some("ccp"))

\* if (pageNum < 0 || !Number.isInteger(pageNum)): q.page is the whole part
\* of the page number, q.pageFrac tells whether it has a fractional part.
PageRejected_Negative(q) == q.page < 0

PageRejected(q) == q.page < 0 \/ q.pageFrac

\* if (pageLimit > 200) ... else if (pageLimit < 0) ...
ClampPageLimit(pageLimit) ==
    IF pageLimit > 200 THEN 200 ELSE IF pageLimit < 0 THEN 0 ELSE pageLimit

\* entities.map(...): the levels returned, each with its rating columns.
LevelRows(page) ==
    [i \in 1..Len(page) |->
        [id |-> page[i].id, uid |-> page[i].uid,
         rating |-> AvgRating(page[i].id), aux_rating |-> AuxRating(page[i].id)]]

\* GET /levels. user is None or Some(row of users); q holds the query string.
\* (The tags and search parameters, two further AND-ed conditions, are left out.)
GetLevels(user, q) ==
    /\ LET limit == ClampPageLimit(q.limit)
           match == {l \in levels :
                        /\ ChartFilter(l, q) /\ DateFilter(l, q)
                        /\ FeaturedFilter(l, q) /\ OwnerFilter(l, q)
                        /\ PublicQuery(user, q) => PubliclyListed(l)}
           count == Cardinality(match)
           sorted == SortLevels(match, q)
           page == SubSeq(sorted, limit * q.page + 1,
                          IF limit * q.page + limit < count
                          THEN limit * q.page + limit ELSE count)
           base == [op |-> "getLevels", user |-> user, q |-> q]
       IN  resp' =
             IF PageRejected(q)
             THEN base @@ [status |-> "BadRequestError", rows |-> <<>>,
                           totalEntries |-> None, totalPage |-> None]
             ELSE IF limit = 0
             THEN base @@ [status |-> "ok", rows |-> <<>>,
                           totalEntries |-> Some(count), totalPage |-> None]
             ELSE base @@ [status |-> "ok",
                           rows |-> LevelRows(page),
                           totalEntries |-> Some(count),
                           totalPage |-> Some(Ceil(count, limit))]
    /\ UNCHANGED <<users, levels, charts, ratings, records, cache, proc>>

\* if (level.censored !== null && level.censored !== 'ccp')
CensoredForAll_Never(level) == FALSE

CensoredForAll(level) ==
    IsSome(level.censored) /\ level.censored /= Some("ccp")

\* GET /levels/:id. user is None or Some(row of users).
GetLevel(id, user) ==
    /\ LET hit == {l \in levels : l.uid = id}
           level == CHOOSE l \in hit : TRUE
           readAny == /\ IsSome(user)
                      /\ Granted(Val(user).role,
                                 IF Val(user).id = level.ownerId
                                 THEN "readOwn" ELSE "readAny")
           status == IF hit = {} THEN "undefined"
                     ELSE IF readAny THEN "ok"
                     ELSE IF CensoredForAll(level) THEN "451"
                     ELSE IF ~level.published THEN "ForbiddenError"
                     ELSE "ok"
       IN  resp' = [op |-> "getLevel", id |-> id, user |-> user, status |-> status,
                    level |-> IF status = "ok" THEN Some(level) ELSE None]
    /\ UNCHANGED <<users, levels, charts, ratings, records, cache, proc>>

\* The users of the level specifications. The uid of user 2 is a string that
\* is also the id of user 1 (createUser takes any string as uid).
LevelUsers ==
    {[id |-> 1, uid |-> Some(UidStr(101)), role |-> "user"],
     [id |-> 2, uid |-> Some(IdStr(1)), role |-> "user"],
     [id |-> 3, uid |-> None, role |-> "admin"],
     [id |-> 4, uid |-> Some(UidStr(104)), role |-> "guest"]}

LevelCallers == {None} \cup {Some(u) : u \in LevelUsers}

ChartTable ==
    {[id |-> 1, levelId |-> 1, type |-> "hard", difficulty |-> 10],
     [id |-> 2, levelId |-> 1, type |-> "easy", difficulty |-> 3],
     [id |-> 3, levelId |-> 2, type |-> "extreme", difficulty |-> 14]}

\* Two levels; owner, published and censored are drawn.
LevelTables ==
    { {[id |-> 1, uid |-> "lv1", ownerId |-> o1, published |-> p1, censored |-> c1,
        date |-> 1, featured |-> TRUE],
       [id |-> 2, uid |-> "lv2", ownerId |-> o2, published |-> p2, censored |-> c2,
        date |-> 2, featured |-> FALSE]} :
      o1 \in {1}, o2 \in {1, 2}, p1 \in BOOLEAN, p2 \in BOOLEAN,
      c1 \in {None, Some("ccp"), Some("tos")}, c2 \in {None, Some("tos")} }

\* The query string without parameters (the handler's defaults).
NoQuery ==
    [page |-> 0, pageFrac |-> FALSE, limit |-> 30, order |-> "asc", sort |-> None,
     type |-> None,
     max_difficulty |-> None, min_difficulty |-> None, date_start |-> None,
     date_end |-> None, featured |-> None, owner |-> None]

\* Combinations of the parameters other than owner.
OtherParams ==
    { [x \in {} |-> x],
      [sort |-> Some("rating"), order |-> "desc"],
      [sort |-> Some("difficulty"), order |-> "DESC"],
      [sort |-> Some("creation_date")],
      [sort |-> Some("title"), order |-> "desc"],
      [type |-> Some("hard")],
      [max_difficulty |-> Some(5)],
      [min_difficulty |-> Some(5), max_difficulty |-> Some(12)],
      [date_start |-> Some(2)],
      [date_start |-> Some(1), date_end |-> Some(1)],
      [date_start |-> Some(1), date_end |-> Some(2)],
      [featured |-> Some("true")],
      [featured |-> Some("false"), type |-> Some("extreme")],
      [limit |-> 0],
      [limit |-> 1, page |-> 1],
      [limit |-> 500, sort |-> Some("rating")],
      [limit |-> -5],
      [page |-> -1] }

OwnerParams == {None, Some(IdStr(1)), Some(UidStr(101)), Some(IdStr(2)), Some(UidStr(999))}

LevelQueries ==
    { [k \in DOMAIN NoQuery |->
          IF k = "owner" THEN o ELSE IF k \in DOMAIN other THEN other[k] ELSE NoQuery[k]] :
      other \in OtherParams, o \in OwnerParams }

LevelsInit ==
    /\ users = LevelUsers
    /\ levels \in LevelTables
    /\ charts = ChartTable
    /\ ratings = {[levelId |-> 1, userId |-> 2, rating |-> 16]}
    /\ records = {}
    /\ cache = [id \in RatingUids |-> None]
    /\ proc = [p \in Procs |-> Idle]
    /\ resp = NoResp

\* An answer depends on the tables alone: one request per drawn table.
LevelsNext ==
    \/ \E id \in {"lv1", "lv2", "nolevel"}, user \in LevelCallers :
           /\ resp = NoResp
           /\ GetLevel(id, user)
    \/ \E user \in LevelCallers, q \in LevelQueries :
           /\ resp = NoResp
           /\ GetLevels(user, q)

SpecLevels == LevelsInit /\ [][LevelsNext]_vars

\* The values users may have given: none (0), 2, 6 or 10.
AuxValues == {0, 2, 6, 10}

AuxRaters == {1, 2, 3}

AuxLevels ==
    {[id |-> 1, uid |-> "lv1", ownerId |-> 1, published |-> TRUE, censored |-> None,
      date |-> 1, featured |-> TRUE],
     [id |-> 2, uid |-> "lv2", ownerId |-> 1, published |-> TRUE, censored |-> None,
      date |-> 2, featured |-> FALSE]}

AuxRatingTables ==
    { {[levelId |-> k[1], userId |-> k[2], rating |-> 2 * f[k]] :
          k \in {x \in DOMAIN f : f[x] /= 0}} :
      f \in [{1, 2} \X AuxRaters -> AuxValues] }

AuxInit ==
    /\ users = LevelUsers
    /\ levels = AuxLevels
    /\ charts = ChartTable
    /\ ratings \in AuxRatingTables
    /\ records = {}
    /\ cache = [id \in RatingUids |-> None]
    /\ proc = [p \in Procs |-> Idle]
    /\ resp = NoResp

AuxNext ==
    \E order \in {"asc", "desc"} :
        /\ resp = NoResp
        /\ GetLevels(None, [NoQuery EXCEPT !.sort = Some("rating"), !.order = order])

SpecAux == AuxInit /\ [][AuxNext]_vars

\* ------------------------------------------------------------------
\* Properties of getLevels' aux_rating (SpecAux)
\* ------------------------------------------------------------------

\* C6: for every level listed sorted by rating, aux_rating is
\* (60 + sum of its ratings) / (10 + number of its ratings) up to the rounding
\* of the numeric division, is absent for a level without ratings, lies
\* between 6 and the level's mean (inclusive), and of two levels with the same
\* mean the one with more ratings is listed with the aux_rating nearer to that
\* mean (strictly nearer unless the mean is 6); the list is ordered by it.
C6_AuxRating ==
    (resp.op = "getLevels" /\ resp.status = "ok" /\ resp.q.sort = Some("rating")) =>
        LET rows == resp.rows
            given(i) == {r \in ratings : r.levelId = rows[i].id}
            n(i) == Cardinality(given(i))
            sum(i) == SumOver(given(i), [r \in given(i) |-> r.rating \div 2])
            aux(i) == Val(rows[i].aux_rating)
            dist(i) == Abs(aux(i) * n(i) - sum(i) * NumericScale)
        IN  /\ \A i \in DOMAIN rows :
                  IF n(i) = 0 THEN rows[i].aux_rating = None
                  ELSE /\ IsSome(rows[i].aux_rating)
                       /\ Abs(aux(i) * (10 + n(i)) - NumericScale * (60 + sum(i)))
                              <= n(i) + 5
                       /\ \/ 6 * NumericScale <= aux(i)
                             /\ aux(i) * n(i) <= sum(i) * NumericScale
                          \/ sum(i) * NumericScale <= aux(i) * n(i)
                             /\ aux(i) <= 6 * NumericScale
            /\ \A i, j \in DOMAIN rows :
                  (n(i) >= 1 /\ n(i) < n(j) /\ sum(i) * n(j) = sum(j) * n(i)) =>
                      /\ dist(j) * n(i) <= dist(i) * n(j)
                      /\ sum(i) /= 6 * n(i) => dist(j) * n(i) < dist(i) * n(j)
            /\ \A i, j \in DOMAIN rows :
                  (i < j /\ IsSome(rows[j].aux_rating)) =>
                      /\ IsSome(rows[i].aux_rating)
                      /\ IsDesc(resp.q.order) => aux(i) >= aux(j)
                      /\ ~IsDesc(resp.q.order) => aux(i) <= aux(j)

\* Two levels with the same mean 10, one rated once and one rated three
\* times, listed best first: the level with three ratings comes first.
C6_Witness ==
    /\ resp.op = "getLevels" /\ resp.status = "ok"
    /\ resp.q.sort = Some("rating") /\ resp.q.order = "desc"
    /\ Len(resp.rows) = 2
    /\ resp.rows[1].rating = Some(10 * NumericScale)
    /\ resp.rows[2].rating = Some(10 * NumericScale)
    /\ Cardinality({r \in ratings : r.levelId = resp.rows[1].id}) = 3
    /\ Cardinality({r \in ratings : r.levelId = resp.rows[2].id}) = 1
    /\ Val(resp.rows[1].aux_rating) > Val(resp.rows[2].aux_rating)

\* ------------------------------------------------------------------
\* Properties of getLevel and getLevels' visibility (SpecLevels)
\* ------------------------------------------------------------------

\* C9 as stated: getLevel returns a level only to a caller with read
\* permission or when the level is published and not censored; for the other
\* callers a level censored with a value other than 'ccp' yields 451 and an
\* unpublished one ForbiddenError, censorship first.
C9_GetLevel_Stated ==
    (resp.op = "getLevel" /\ resp.status /= "undefined") =>
        LET l == CHOOSE x \in levels : x.uid = resp.id
            perm == /\ IsSome(resp.user)
                    /\ Granted(Val(resp.user).role,
                               IF Val(resp.user).id = l.ownerId
                               THEN "readOwn" ELSE "readAny")
            banned == IsSome(l.censored) /\ l.censored /= Some("ccp")
        IN  /\ resp.status = "ok" => (perm \/ (l.published /\ l.censored = None))
            /\ ~perm => /\ banned => resp.status = "451"
                        /\ (~banned /\ ~l.published) => resp.status = "ForbiddenError"

\* C9 amended: getLevel returns a level only to a caller with read permission
\* or when the level is published and not censored with a value other than
\* 'ccp'; for the other callers a level censored with a value other than 'ccp'
\* yields 451 and an unpublished one ForbiddenError, censorship first.
C9_GetLevel ==
    (resp.op = "getLevel" /\ resp.status /= "undefined") =>
        LET l == CHOOSE x \in levels : x.uid = resp.id
            perm == /\ IsSome(resp.user)
                    /\ Granted(Val(resp.user).role,
                               IF Val(resp.user).id = l.ownerId
                               THEN "readOwn" ELSE "readAny")
            banned == IsSome(l.censored) /\ l.censored /= Some("ccp")
        IN  /\ resp.level = (IF resp.status = "ok" THEN Some(l) ELSE None)
            /\ resp.status = "ok" => (perm \/ (l.published /\ ~banned))
            /\ ~perm => /\ banned => resp.status = "451"
                        /\ (~banned /\ ~l.published) => resp.status = "ForbiddenError"

\* An anonymous caller asked for an unpublished level censored with 'tos' and
\* got 451, not ForbiddenError.
C9_Witness ==
    /\ resp.op = "getLevel" /\ resp.user = None /\ resp.status = "451"
    /\ \E l \in levels : l.uid = resp.id /\ ~l.published /\ l.censored = Some("tos")

----------------------------------------------------------------------------
(* Profile: ProfileController.exp                                          *)

\* The tables of the experience specification. Durations are multiples of
\* 60, difficulties multiples of 15 and scores 0 or 1000000, so that every
\* division of the query is exact whatever the numeric type of its operands.
ExpLevels ==
    {[id |-> 1, uid |-> "lv1", ownerId |-> 1, published |-> TRUE, censored |-> None,
      date |-> 1, featured |-> TRUE, duration |-> 60],
     [id |-> 2, uid |-> "lv2", ownerId |-> 1, published |-> TRUE, censored |-> None,
      date |-> 2, featured |-> FALSE, duration |-> 120]}

ExpCharts ==
    {[id |-> 1, levelId |-> 1, type |-> "hard", difficulty |-> 15, notesCount |-> 100],
     [id |-> 2, levelId |-> 1, type |-> "easy", difficulty |-> 15, notesCount |-> 40],
     [id |-> 3, levelId |-> 2, type |-> "extreme", difficulty |-> 15, notesCount |-> 200],
     [id |-> 4, levelId |-> 2, type |-> "easy", difficulty |-> 30, notesCount |-> 10]}

\* Records the table may hold: plays of user 1 on every chart (two of them
\* alike but for the time written), and a play of user 2.
ExpRecords ==
    {[ownerId |-> 1, chartId |-> 1, score |-> MaxScore, date |-> 1, ranked |-> TRUE],
     [ownerId |-> 1, chartId |-> 1, score |-> MaxScore, date |-> 2, ranked |-> TRUE],
     [ownerId |-> 1, chartId |-> 1, score |-> 0, date |-> 3, ranked |-> TRUE],
     [ownerId |-> 1, chartId |-> 2, score |-> MaxScore, date |-> 4, ranked |-> FALSE],
     [ownerId |-> 1, chartId |-> 3, score |-> MaxScore, date |-> 5, ranked |-> TRUE],
     [ownerId |-> 1, chartId |-> 3, score |-> MaxScore, date |-> 6, ranked |-> FALSE],
     [ownerId |-> 1, chartId |-> 4, score |-> MaxScore, date |-> 7, ranked |-> TRUE],
     [ownerId |-> 2, chartId |-> 1, score |-> MaxScore, date |-> 8, ranked |-> TRUE]}

ChartOf(r) == CHOOSE c \in charts : c.id = r.chartId

LevelOf(c) == CHOOSE l \in levels : l.id = c.levelId

\* sqrt(x), for x a perfect square.
Sqrt(x) == CHOOSE k \in 0..x : k * k = x

\* charts."notesCount" * (charts.difficulty / 15) +
\*   levels.duration / 60 * 100 * (CASE WHEN records.ranked THEN 1 ELSE 0.5 END)
ExpBase(r) ==
    LET c == ChartOf(r)
        l == LevelOf(c)
        play == (l.duration \div 60) * 100
    IN  c.notesCount * (c.difficulty \div 15)
          + (IF r.ranked THEN play ELSE play \div 2)

\* WITH scores AS (SELECT ... FROM records JOIN charts JOIN levels
\*   WHERE records."ownerId" = $1 AND charts.difficulty BETWEEN 1 AND 16)
\* One row per qualifying record (rec tells rows of equal value apart).
ExpScores(uuid) ==
    {[rec |-> r, base |-> ExpBase(r), score |-> r.score,
      level |-> ChartOf(r).levelId] :
        r \in {x \in records : /\ x.ownerId = uuid
                               /\ ChartOf(x).difficulty >= 1
                               /\ ChartOf(x).difficulty <= 16}}

\* sqrt(scores.score / 1000000) * scores.base
BasicTerm(s) == Sqrt(s.score \div 1000000) * s.base

\* pow(scores.score / 1000000, 2) * (scores.base * 1.5)
LevelTerm(s) ==
    (s.score \div 1000000) * (s.score \div 1000000) * ((s.base * 3) \div 2)

\* chart_scores AS (SELECT max(...) as score FROM scores GROUP BY scores.level)
ExpChartScores(scores) ==
    {[level |-> lv,
      score |-> MaxOf({LevelTerm(s) : s \in {x \in scores : x.level = lv}})] :
        lv \in {s.level : s \in scores}}

\* SELECT sum(...) as basic_exp, sum(chart_scores.score) as level_exp
\* FROM scores, chart_scores: the sums run over every pair of a scores row and
\* a chart_scores row (NULL when there is no pair).
ExpQuery(uuid) ==
    LET scores == ExpScores(uuid)
        pairs == scores \X ExpChartScores(scores)
    IN  IF pairs = {} THEN [basic_exp |-> None, level_exp |-> None]
        ELSE [basic_exp |-> Some(SumOver(pairs, [p \in pairs |-> BasicTerm(p[1])])),
              level_exp |-> Some(SumOver(pairs, [p \in pairs |-> p[2].score]))]

\* ProfileController.exp. (currentLevel and nextLevelExp, functions of
\* totalExp alone, are left out of the answer.)
Exp(uuid) ==
    /\ LET result == ExpQuery(uuid)
           num(o) == IF IsSome(o) THEN Val(o) ELSE 0
       IN  resp' = [op |-> "exp", user |-> uuid,
                    basicExp |-> result.basic_exp,
                    levelExp |-> result.level_exp,
                    totalExp |-> num(result.basic_exp) + num(result.level_exp)]
    /\ UNCHANGED <<users, levels, charts, ratings, records, cache, proc>>

ExpInit ==
    /\ users = LevelUsers
    /\ levels = ExpLevels
    /\ charts = ExpCharts
    /\ ratings = {}
    /\ records \in SUBSET ExpRecords
    /\ cache = [id \in RatingUids |-> None]
    /\ proc = [p \in Procs |-> Idle]
    /\ resp = NoResp

ExpNext ==
    \E uuid \in {1, 2} :
        /\ resp = NoResp
        /\ Exp(uuid)

SpecExp == ExpInit /\ [][ExpNext]_vars

\* C11: in an answer of exp, basic_exp is the sum, over the user's records on
\* charts of difficulty 1..16, of each record's term taken once, and level_exp
\* is the sum, over the levels of those records, of the level's best term
\* taken once.
C11_ExpOnce ==
    resp.op = "exp" =>
        LET mine == {r \in records :
                        /\ r.ownerId = resp.user
                        /\ \E c \in charts : /\ c.id = r.chartId
                                             /\ c.difficulty \in 1..16}
            row(r) == [rec |-> r, base |-> ExpBase(r), score |-> r.score,
                       level |-> ChartOf(r).levelId]
            played == {ChartOf(r).levelId : r \in mine}
            best(lv) == MaxOf({LevelTerm(row(r)) :
                                  r \in {x \in mine : ChartOf(x).levelId = lv}})
        IN  mine /= {} =>
                /\ resp.basicExp =
                       Some(SumOver(mine, [r \in mine |-> BasicTerm(row(r))]))
                /\ resp.levelExp =
                       Some(SumOver(played, [lv \in played |-> best(lv)]))

----------------------------------------------------------------------------
(* Profile: ProfileController.personalRating                               *)

\* Accuracies and performance ratings are counted in units of 1/10000.
PerfUnit == 10000

\* Steps per decade of the logarithmic accuracy grid.
LogSteps == 4

\* An accuracy is given either as a fraction, [kind |-> "rat", v |-> A] for
\* A / 10000, or by its logarithm, [kind |-> "log", v |-> T] for the accuracy
\* a with log10((1 - a) / 0.03) = T / LogSteps. The four accuracies 0.7, 0.97,
\* 0.997 and 0.9997 have both forms (T / LogSteps = 1, 0, -1, -2); the
\* fractions on the grid lie at or below 0.7 or at or above 0.9997, the
\* logarithmic ones from 0.7 to 0.9997, so that every value of the query is
\* exact.
RatAcc(A) == [kind |-> "rat", v |-> A]

LogAcc(T) == [kind |-> "log", v |-> T]

\* log10((1.0 - r.accuracy) / 0.03), in steps of 1 / LogSteps.
LogCoord(a) ==
    IF a.kind = "log" THEN a.v
    ELSE CASE a.v = 7000 -> LogSteps
           [] a.v = 9700 -> 0
           [] a.v = 9970 -> -LogSteps
           [] a.v = 9997 -> -2 * LogSteps

\* r.accuracy, in units of 1/10000.
RatCoord(a) ==
    IF a.kind = "rat" THEN a.v
    ELSE CASE a.v = LogSteps      -> 7000
           [] a.v = 0             -> 9700
           [] a.v = -LogSteps     -> 9970
           [] a.v = -2 * LogSteps -> 9997

\* The place of an accuracy in the order of the accuracies of the grid.
AccPos(a) ==
    IF a.kind = "log" THEN 7000 + (LogSteps - a.v)
    ELSE IF a.v < 7000 THEN a.v
    ELSE IF a.v > 9997 THEN 7000 + 3 * LogSteps + (a.v - 9997)
    ELSE 7000 + (LogSteps - LogCoord(a))

\* r.accuracy < bound, bound one of 0.7, 0.97, 0.997, 0.9997 (as a fraction)
AccBelow(a, bound) == AccPos(a) < AccPos(RatAcc(bound))

\* (|/ (r.accuracy / 0.7)) * 0.5
PerfSqrt(a) == (Sqrt((RatCoord(a) * 100) \div 7000) * 5000) \div 10

\* 0.7 - 0.2 * log((1.0 - r.accuracy) / 0.03)
PerfLog2(a) == 7000 - (2000 * LogCoord(a)) \div LogSteps

\* 0.7 - 0.16 * log((1.0 - r.accuracy) / 0.03)
PerfLog3_Steep(a) == 7000 - (2000 * LogCoord(a)) \div LogSteps

PerfLog3(a) == 7000 - (1600 * LogCoord(a)) \div LogSteps

\* 0.78 - 0.08 * log((1.0 - r.accuracy) / 0.03)
PerfLog4(a) == 7800 - (800 * LogCoord(a)) \div LogSteps

\* r.accuracy * 200.0 - 199.0
PerfLinear(a) == RatCoord(a) * 200 - 199 * PerfUnit

\* CASE WHEN r.accuracy < 0.7 THEN ... ELSE ... END as performance_rating
PerformanceRating(a) ==
    IF AccBelow(a, 7000) THEN PerfSqrt(a)
    ELSE IF AccBelow(a, 9700) THEN PerfLog2(a)
    ELSE IF AccBelow(a, 9970) THEN PerfLog3(a)
    ELSE IF AccBelow(a, 9997) THEN PerfLog4(a)
    ELSE PerfLinear(a)

\* The rows of the subquery v: one per record of the user.
PerfRows(uuid) ==
    {[rec |-> r.date, accuracy |-> r.accuracy,
      performance_rating |-> PerformanceRating(r.accuracy),
      difficulty_rating |-> ChartOf(r).difficulty] :
        r \in {x \in records : x.ownerId = uuid}}

\* ProfileController.personalRating: avg(performance_rating *
\* difficulty_rating), the fraction num / den (NULL without records). v is
\* what the average was taken over.
PersonalRating(uuid) ==
    /\ LET v == PerfRows(uuid)
       IN  resp' = [op |-> "personalRating", user |-> uuid, v |-> v,
                    rating |->
                      IF v = {} THEN None
                      ELSE Some([num |-> SumOver(v, [x \in v |->
                                    x.performance_rating * x.difficulty_rating]),
                                 den |-> Cardinality(v)])]
    /\ UNCHANGED <<users, levels, charts, ratings, records, cache, proc>>

\* The accuracies of the grid.
AccPoints ==
    {RatAcc(70 * k * k) : k \in 0..10}
      \cup {RatAcc(A) : A \in {9700, 9970, 9997, 9998, 9999, 10000}}
      \cup {LogAcc(T) : T \in (-2 * LogSteps)..LogSteps}

\* One or two records of user 1 on chart 1.
PerfTables ==
    { {[ownerId |-> 1, chartId |-> 1, score |-> MaxScore, date |-> 1,
        ranked |-> TRUE, accuracy |-> a]} : a \in AccPoints }
      \cup
    { {[ownerId |-> 1, chartId |-> 1, score |-> MaxScore, date |-> 1,
        ranked |-> TRUE, accuracy |-> a],
       [ownerId |-> 1, chartId |-> 3, score |-> MaxScore, date |-> 2,
        ranked |-> TRUE, accuracy |-> b]} : a \in AccPoints, b \in AccPoints }

PerfInit ==
    /\ users = LevelUsers
    /\ levels = ExpLevels
    /\ charts = ExpCharts
    /\ ratings = {}
    /\ records \in PerfTables
    /\ cache = [id \in RatingUids |-> None]
    /\ proc = [p \in Procs |-> Idle]
    /\ resp = NoResp

PerfNext ==
    \E uuid \in {1, 2} :
        /\ resp = NoResp
        /\ PersonalRating(uuid)

SpecPerf == PerfInit /\ [][PerfNext]_vars

\* C12: over the records a personal rating was computed from, the
\* performance rating does not decrease as the accuracy grows; at accuracy
\* 0.7, 0.97, 0.997 and 0.9997 it is 0.5, 0.7, 0.86 and 0.94 and the
\* expressions of the two branches that meet there both give that value; at
\* accuracy 1 it is 1; and the answer is the mean of performance rating times
\* difficulty.
C12_PerformanceRating ==
    resp.op = "personalRating" =>
        LET at(x, A) == AccPos(x.accuracy) = AccPos(RatAcc(A))
        IN  /\ \A x, y \in resp.v :
                  AccPos(x.accuracy) <= AccPos(y.accuracy)
                      => x.performance_rating <= y.performance_rating
            /\ \A x \in resp.v :
                  /\ at(x, 7000) =>
                         /\ x.performance_rating = 5000
                         /\ PerfSqrt(x.accuracy) = 5000
                         /\ PerfLog2(x.accuracy) = 5000
                  /\ at(x, 9700) =>
                         /\ x.performance_rating = 7000
                         /\ PerfLog2(x.accuracy) = 7000
                         /\ PerfLog3(x.accuracy) = 7000
                  /\ at(x, 9970) =>
                         /\ x.performance_rating = 8600
                         /\ PerfLog3(x.accuracy) = 8600
                         /\ PerfLog4(x.accuracy) = 8600
                  /\ at(x, 9997) =>
                         /\ x.performance_rating = 9400
                         /\ PerfLog4(x.accuracy) = 9400
                         /\ PerfLinear(x.accuracy) = 9400
                  /\ at(x, 10000) => x.performance_rating = PerfUnit
                  /\ x.performance_rating \in 0..PerfUnit
            /\ resp.v /= {} =>
                  /\ Val(resp.rating).den = Cardinality(resp.v)
                  /\ Val(resp.rating).num =
                         SumOver(resp.v, [x \in resp.v |->
                             x.performance_rating * x.difficulty_rating])

\* A personal rating over a record of accuracy 0.997, given by its logarithm,
\* and a record of accuracy 1.
C12_Witness ==
    /\ resp.op = "personalRating"
    /\ \E x, y \in resp.v :
           /\ x.accuracy = LogAcc(-LogSteps) /\ x.performance_rating = 8600
           /\ y.accuracy = RatAcc(10000) /\ y.performance_rating = PerfUnit

\* C13: when an anonymous caller gives both bounds of a range and no other
\* filter, getLevels lists exactly the publicly listed levels within both
\* bounds: those with a chart of difficulty from min_difficulty to
\* max_difficulty, or those created from date_start to date_end.
C13_RangeFilters ==
    (/\ resp.op = "getLevels" /\ resp.status = "ok" /\ resp.user = None
     /\ resp.q.owner = None /\ resp.q.type = None /\ resp.q.featured = None
     /\ resp.q.limit = 30 /\ resp.q.page = 0) =>
        LET q == resp.q
            open == {l \in levels : /\ l.published
                                    /\ l.censored \in {None, Some("ccp")}}
            shown == {resp.rows[i].id : i \in DOMAIN resp.rows}
        IN  /\ (/\ IsSome(q.min_difficulty) /\ IsSome(q.max_difficulty)
                /\ q.date_start = None /\ q.date_end = None) =>
                   shown = {l.id : l \in {x \in open :
                               \E c \in charts :
                                   /\ c.levelId = x.id
                                   /\ c.difficulty >= Val(q.min_difficulty)
                                   /\ c.difficulty <= Val(q.max_difficulty)}}
            /\ (/\ IsSome(q.date_start) /\ IsSome(q.date_end)
                /\ q.min_difficulty = None /\ q.max_difficulty = None) =>
                   shown = {l.id : l \in {x \in open :
                               /\ x.date >= Val(q.date_start)
                               /\ x.date <= Val(q.date_end)}}

----------------------------------------------------------------------------
(* Paging of getLevels                                                     *)

\* Levels of the long listing: more than the largest page.
ShelfSize == 201

Shelf ==
    {[id |-> i, uid |-> "lv" \o ToString(i), ownerId |-> 1, published |-> TRUE,
      censored |-> None, date |-> i, featured |-> FALSE] : i \in 1..ShelfSize}

PagingTables == {{}, AuxLevels, Shelf}

PagingQueries ==
    {[NoQuery EXCEPT !.limit = l, !.page = pg, !.pageFrac = f, !.order = o] :
        l \in {-5, 0, 1, 2, 200, 201, 500}, pg \in {-1, 0, 1, 2},
        f \in BOOLEAN, o \in {"asc", "desc"}}

PagingInit ==
    /\ users = LevelUsers
    /\ levels \in PagingTables
    /\ charts = {}
    /\ ratings = {}
    /\ records = {}
    /\ cache = [id \in RatingUids |-> None]
    /\ proc = [p \in Procs |-> Idle]
    /\ resp = NoResp

PagingNext ==
    \E q \in PagingQueries :
        /\ resp = NoResp
        /\ GetLevels(None, q)

SpecPaging == PagingInit /\ [][PagingNext]_vars

\* C14: getLevels answers BadRequestError exactly when the page is negative
\* or not an integer; otherwise, with the limit clamped into 0..200, it
\* reports the number of levels as X-Total-Entries, lists the levels at
\* positions limit*page + 1 .. limit*page + limit of the ordered listing (as
\* many as exist), reports as X-Total-Page the least number of pages of that
\* size that hold every entry, and for limit 0 lists nothing and reports no
\* X-Total-Page.
C14_Paging ==
    resp.op = "getLevels" =>
        LET q == resp.q
            limit == IF q.limit < 0 THEN 0 ELSE IF q.limit > 200 THEN 200 ELSE q.limit
            count == Cardinality(levels)
            n == Len(resp.rows)
            \* the place of a level in the listing by creation date
            place(id) == LET l == CHOOSE x \in levels : x.id = id
                         IN  IF q.order = "desc"
                             THEN 1 + Cardinality({x \in levels : x.date > l.date})
                             ELSE 1 + Cardinality({x \in levels : x.date < l.date})
        IN  IF q.page < 0 \/ q.pageFrac
            THEN resp.status = "BadRequestError" /\ resp.rows = <<>>
            ELSE /\ resp.status = "ok"
                 /\ resp.totalEntries = Some(count)
                 /\ n <= limit
                 /\ n = IF count - limit * q.page < 0 THEN 0
                        ELSE IF count - limit * q.page < limit
                        THEN count - limit * q.page ELSE limit
                 /\ \A i \in 1..n : place(resp.rows[i].id) = limit * q.page + i
                 /\ IF limit = 0 THEN resp.totalPage = None
                    ELSE /\ IsSome(resp.totalPage)
                         /\ Val(resp.totalPage) * limit >= count
                         /\ (Val(resp.totalPage) - 1) * limit < count
                         /\ Val(resp.totalPage) >= 0

\* The long listing asked for with limit 500 on page 1: the limit is 200, one
\* level is left for the second of two pages.
C14_Witness ==
    /\ resp.op = "getLevels" /\ resp.status = "ok"
    /\ resp.q.limit = 500 /\ resp.q.page = 1
    /\ Cardinality(levels) > 200
    /\ Len(resp.rows) = Cardinality(levels) - 200
    /\ resp.totalPage = Some(2)

----------------------------------------------------------------------------
(* addRecord                                                               *)

\* Requests of addRecord: [uid, type, user, record].
RecordInputs ==
    {[uid |-> "lv1", type |-> "hard", user |-> 1, record |-> rec] :
        rec \in {PlainRecord,
                 [PlainRecord EXCEPT !.score = MaxScore, !.ranked = FALSE,
                                     !.accuracy = RatAcc(0)],
                 [PlainRecord EXCEPT !.score = 0, !.accuracy = LogAcc(0)],
                 [PlainRecord EXCEPT !.score = -1],
                 [PlainRecord EXCEPT !.score = MaxScore + 1],
                 [PlainRecord EXCEPT !.whole = FALSE],
                 [PlainRecord EXCEPT !.accuracy = RatAcc(-1)],
                 [PlainRecord EXCEPT !.accuracy = RatAcc(PerfUnit + 1)],
                 [PlainRecord EXCEPT !.extra = [chart |-> Some(2)]],
                 [PlainRecord EXCEPT !.extra = [ownerId |-> 2]]}}
    \cup {[uid |-> "lv1", type |-> "extreme", user |-> 2, record |-> PlainRecord],
          [uid |-> "nolevel", type |-> "hard", user |-> 2, record |-> PlainRecord],
          [uid |-> "nolevel", type |-> "hard", user |-> 2,
           record |-> [PlainRecord EXCEPT !.score = -1]],
          [uid |-> "lv1", type |-> "extreme", user |-> 2,
           record |-> [PlainRecord EXCEPT !.extra = [chart |-> Some(2)]]]}

RecordsInit ==
    /\ users = BoardUsers
    /\ levels = RatingLevels
    /\ charts = BoardCharts
    /\ ratings = {}
    /\ records = {}
    /\ cache = [id \in RatingUids |-> None]
    /\ proc = [p \in Procs |-> Idle]
    /\ resp = NoResp

\* Rows are written one after the other: the date of a row is its number.
RecordsNext ==
    \E in \in RecordInputs :
        AddRecord(in.uid, in.type, in.user, in.record, Cardinality(records) + 1)

SpecRecords == RecordsInit /\ [][RecordsNext]_vars

\* C15: a step of addRecord stores at most one new row and changes no other;
\* a stored row has a score in 0..1000000 and an accuracy in 0..1 and belongs
\* to the chart of the level uid and chart type of the request; when there is
\* no such chart nothing is stored and the answer is NotFoundError (or the
\* BadRequestError of an invalid body).
C15_AddRecord ==
    [][ resp'.op = "addRecord" =>
          LET target == {c \in charts : /\ c.type = resp'.type
                                        /\ \E l \in levels : /\ l.uid = resp'.id
                                                             /\ l.id = c.levelId}
              new == records' \ records
          IN  /\ records \subseteq records'
              /\ Cardinality(new) <= 1
              /\ resp'.status /= "ok" => new = {}
              /\ \A r \in new :
                    /\ r.score \in 0..MaxScore
                    /\ AccuracyValid(r.accuracy)
                    /\ r.chartId \in {c.id : c \in target}
              /\ target = {} =>
                    /\ new = {}
                    /\ resp'.status \in {"NotFoundError", "BadRequestError"}
      ]_vars

====
